---- MODULE Spec2Model ----
(***************************************************************************)
(* Model of the grouping engine of src/src/App.tsx: findConnectedNames,    *)
(* countConnectionsBetweenGroups, mergeGroups, createConnectedGroups,      *)
(* processInput and the per-group analytics.                               *)
(*                                                                         *)
(* An entity identifier (a trimmed name string) is modelled by a positive  *)
(* integer; 0 stands for the empty string.  A JavaScript Set is modelled   *)
(* by the sequence of its elements in insertion order, because the code    *)
(* depends on that order ("const [first] = set").  Array indices are kept  *)
(* 0-based as in the source; the element at index i is seq[i + 1].         *)
(***************************************************************************)
EXTENDS Integers, Sequences, FiniteSets

\* ---------------------------------------------------------------- bounds
MaxNames == 3
MaxLinks == 2
MaxCfg == 3
MaxNameLines == 1
MaxLinkLines == 1
MaxField == 2

\* ------------------------------------------------- program constants
InitialMinGroupSize == 3
InitialMaxGroupSize == 5
InitialMaxGroups == 3

\* ------------------------------------------------------------- sequences
Range(s) == {s[k] : k \in 1..Len(s)}

SeqsUpTo(S, n) == UNION {[1..m -> S] : m \in 0..n}

\* Set.prototype.has / add / delete on an insertion-ordered set
Has(set, x) == \E k \in 1..Len(set) : set[k] = x

SetAdd(set, x) == IF Has(set, x) THEN set ELSE Append(set, x)

SetDelete(set, x) == SelectSeq(set, LAMBDA y : y # x)

\* new Set(array): the distinct elements in first-occurrence order
RECURSIVE SetFrom(_, _)
SetFrom(array, acc) ==
  IF array = <<>> THEN acc ELSE SetFrom(Tail(array), SetAdd(acc, Head(array)))

\* Array.prototype.splice(index, 1) with a 0-based index
Splice(array, index) ==
  [k \in 1..(Len(array) - 1) |-> IF k <= index THEN array[k] ELSE array[k + 1]]

NameLink(s, t) == [source |-> s, target |-> t]

\* ------------------------------------------------- findConnectedNames
\* LinkVisit without line 37: links followed from source to target only
LinkVisitForward(connected, link) ==
  IF Has(connected, link.source) THEN SetAdd(connected, link.target) ELSE connected

\* body of the forEach callback (lines 36-37) for one link
LinkVisit(connected, link) ==
  LET afterSource == IF Has(connected, link.source)
                     THEN SetAdd(connected, link.target) ELSE connected
  IN IF Has(afterSource, link.target)
     THEN SetAdd(afterSource, link.source) ELSE afterSource

\* one full linkPairs.forEach scan (lines 35-38)
RECURSIVE ClosurePass(_, _)
ClosurePass(connected, linkPairs) ==
  IF linkPairs = <<>> THEN connected
  ELSE ClosurePass(LinkVisit(connected, Head(linkPairs)), Tail(linkPairs))

\* the loop test with <= written for !==
ClosureRepeatsWhileNotSmaller(sizeBefore, scanned) == sizeBefore <= Len(scanned)

\* line 39: the test of the do-while, on the size before the scan and the set after it
ClosureRepeats(sizeBefore, scanned) == sizeBefore # Len(scanned)

\* the do-while of lines 33-39, entered with the current set
RECURSIVE ClosureLoop(_, _)
ClosureLoop(connected, linkPairs) ==
  LET scanned == ClosurePass(connected, linkPairs)
  IN IF ClosureRepeats(Len(connected), scanned)
     THEN ClosureLoop(scanned, linkPairs) ELSE scanned

findConnectedNames(name, linkPairs) == ClosureLoop(<<name>>, linkPairs)

\* ------------------------------------- countConnectionsBetweenGroups
countConnectionsBetweenGroups(group1, group2, linkPairs) ==
  Cardinality({k \in 1..Len(linkPairs) :
     \/ Has(group1, linkPairs[k].source) /\ Has(group2, linkPairs[k].target)
     \/ Has(group1, linkPairs[k].target) /\ Has(group2, linkPairs[k].source)})

\* ------------------------------------------------------- mergeGroups
\* ScanPairs without the size test of line 67
RECURSIVE ScanPairsAnySize(_, _, _, _, _, _)
ScanPairsAnySize(groups, linkPairs, maxSize, i, j, best) ==
  IF i >= Len(groups) THEN best
  ELSE IF j >= Len(groups)
       THEN ScanPairsAnySize(groups, linkPairs, maxSize, i + 1, i + 2, best)
  ELSE LET score == countConnectionsBetweenGroups(groups[i + 1], groups[j + 1], linkPairs)
       IN ScanPairsAnySize(groups, linkPairs, maxSize, i, j + 1,
                    IF score > best.bestMergeScore
                    THEN [bestMergeScore |-> score, bestPair |-> <<i, j>>]
                    ELSE best)

\* ScanPairs with >= written for > in line 70: among equal scores the last pair wins
RECURSIVE ScanPairsLastWins(_, _, _, _, _, _)
ScanPairsLastWins(groups, linkPairs, maxSize, i, j, best) ==
  IF i >= Len(groups) THEN best
  ELSE IF j >= Len(groups)
       THEN ScanPairsLastWins(groups, linkPairs, maxSize, i + 1, i + 2, best)
  ELSE LET combinedSize == Len(groups[i + 1]) + Len(groups[j + 1])
           score == countConnectionsBetweenGroups(groups[i + 1], groups[j + 1], linkPairs)
           better == combinedSize <= maxSize /\ score >= best.bestMergeScore
       IN ScanPairsLastWins(groups, linkPairs, maxSize, i, j + 1,
                    IF better THEN [bestMergeScore |-> score, bestPair |-> <<i, j>>]
                    ELSE best)

\* the nested for loops of lines 64-76, resumed at index pair (i, j) with
\* the best score and pair found so far
RECURSIVE ScanPairs(_, _, _, _, _, _)
ScanPairs(groups, linkPairs, maxSize, i, j, best) ==
  IF i >= Len(groups) THEN best
  ELSE IF j >= Len(groups)
       THEN ScanPairs(groups, linkPairs, maxSize, i + 1, i + 2, best)
  ELSE LET combinedSize == Len(groups[i + 1]) + Len(groups[j + 1])
           score == countConnectionsBetweenGroups(groups[i + 1], groups[j + 1], linkPairs)
           better == combinedSize <= maxSize /\ score > best.bestMergeScore
       IN ScanPairs(groups, linkPairs, maxSize, i, j + 1,
                    IF better THEN [bestMergeScore |-> score, bestPair |-> <<i, j>>]
                    ELSE best)

\* FindBestPair with bestMergeScore starting at 0 instead of -1 (line 60)
FindBestPairFromZero(groups, linkPairs, maxSize) ==
  ScanPairs(groups, linkPairs, maxSize, 0, 1,
            [bestMergeScore |-> 0, bestPair |-> <<-1, -1>>]).bestPair

\* lines 60-76: bestPair after the search, <<-1, -1>> when no pair is eligible
FindBestPair(groups, linkPairs, maxSize) ==
  ScanPairs(groups, linkPairs, maxSize, 0, 1,
            [bestMergeScore |-> -1, bestPair |-> <<-1, -1>>]).bestPair

\* lines 84-88: merge the pair, second group removed first
MergePair(groups, bestPair) ==
  LET i == bestPair[1]
      j == bestPair[2]
      mergedGroup == groups[i + 1] \o groups[j + 1]
  IN Append(Splice(Splice(groups, j), i), mergedGroup)

\* the while loop of lines 59-89
RECURSIVE MergeLoop(_, _, _, _)
MergeLoop(groups, linkPairs, maxSize, targetGroupCount) ==
  IF ~(Len(groups) > targetGroupCount) THEN groups
  ELSE LET bestPair == FindBestPair(groups, linkPairs, maxSize)
       IN IF bestPair[1] = -1 THEN groups
          ELSE MergeLoop(MergePair(groups, bestPair), linkPairs, maxSize, targetGroupCount)

mergeGroups(groups, linkPairs, maxSize, targetGroupCount) ==
  IF Len(groups) <= targetGroupCount THEN groups
  ELSE MergeLoop(groups, linkPairs, maxSize, targetGroupCount)

\* ---------------------------------------------- createConnectedGroups
\* The loop state is the record b = [unassignedNames, groups, currentGroup].

\* SeedGroup without line 104: the seed stays unassigned
SeedGroupKeepsName(b) ==
  IF Len(b.currentGroup) = 0
  THEN [b EXCEPT !.currentGroup = <<Head(b.unassignedNames)>>]
  ELSE b

\* lines 100-105: start a new group with the first unassigned name
SeedGroup(b) ==
  IF Len(b.currentGroup) = 0
  THEN [b EXCEPT !.currentGroup = <<Head(b.unassignedNames)>>,
                 !.unassignedNames = Tail(b.unassignedNames)]
  ELSE b

\* lines 111-113: connected.forEach for one member's closure
RECURSIVE CollectConnected(_, _, _)
CollectConnected(connectedToGroup, connected, unassignedNames) ==
  IF connected = <<>> THEN connectedToGroup
  ELSE CollectConnected(
         IF Has(unassignedNames, Head(connected))
         THEN SetAdd(connectedToGroup, Head(connected)) ELSE connectedToGroup,
         Tail(connected), unassignedNames)

\* lines 108-114: currentGroup.forEach, resumed with the members still to visit
RECURSIVE ConnectedToGroup(_, _, _, _)
ConnectedToGroup(connectedToGroup, members, unassignedNames, linkPairs) ==
  IF members = <<>> THEN connectedToGroup
  ELSE ConnectedToGroup(
         CollectConnected(connectedToGroup,
                          findConnectedNames(Head(members), linkPairs),
                          unassignedNames),
         Tail(members), unassignedNames, linkPairs)

\* PadGroup without the loops of lines 119-123 and 140-143: a group below
\* minSize is pushed as it is
PadGroupSkipped(b, minSize) == b

\* lines 119-123 and 140-144: pad the group up to minSize from the unassigned set
RECURSIVE PadGroup(_, _)
PadGroup(b, minSize) ==
  IF Len(b.currentGroup) < minSize /\ Len(b.unassignedNames) > 0
  THEN PadGroup([b EXCEPT !.currentGroup = Append(@, Head(b.unassignedNames)),
                          !.unassignedNames = Tail(b.unassignedNames)], minSize)
  ELSE b

\* FinalizeOrGrow without line 134: the name moved into the group stays unassigned
FinalizeOrGrowKeepsName(b, connectedToGroup, minSize, maxSize) ==
  IF Len(connectedToGroup) = 0 \/ Len(b.currentGroup) >= maxSize
  THEN LET padded == PadGroup(b, minSize)
       IN [padded EXCEPT !.groups = Append(@, padded.currentGroup),
                         !.currentGroup = <<>>]
  ELSE [b EXCEPT !.currentGroup = Append(@, Head(connectedToGroup))]

\* FinalizeOrGrow taking, in line 132, the connected name that comes first in
\* the unassigned set instead of the first of connectedToGroup
FinalizeOrGrowInputOrder(b, connectedToGroup, minSize, maxSize) ==
  IF Len(connectedToGroup) = 0 \/ Len(b.currentGroup) >= maxSize
  THEN LET padded == PadGroup(b, minSize)
       IN [padded EXCEPT !.groups = Append(@, padded.currentGroup),
                         !.currentGroup = <<>>]
  ELSE LET nextName == Head(SelectSeq(b.unassignedNames,
                                      LAMBDA n : Has(connectedToGroup, n)))
       IN [b EXCEPT !.currentGroup = Append(@, nextName),
                    !.unassignedNames = SetDelete(@, nextName)]

\* lines 116-134: finalize the group or grow it by the first connected name
FinalizeOrGrow(b, connectedToGroup, minSize, maxSize) ==
  IF Len(connectedToGroup) = 0 \/ Len(b.currentGroup) >= maxSize
  THEN LET padded == PadGroup(b, minSize)
       IN [padded EXCEPT !.groups = Append(@, padded.currentGroup),
                         !.currentGroup = <<>>]
  ELSE LET nextName == Head(connectedToGroup)
       IN [b EXCEPT !.currentGroup = Append(@, nextName),
                    !.unassignedNames = SetDelete(@, nextName)]

\* one iteration of the while loop of lines 99-135
BuildIteration(b, linkPairs, minSize, maxSize) ==
  LET seeded == SeedGroup(b)
  IN FinalizeOrGrow(seeded,
       ConnectedToGroup(<<>>, seeded.currentGroup, seeded.unassignedNames, linkPairs),
       minSize, maxSize)

\* lines 137-148: add the last group if it is not empty, and return
BuildTail(b, minSize) ==
  IF Len(b.currentGroup) > 0
  THEN LET padded == PadGroup(b, minSize)
       IN Append(padded.groups, padded.currentGroup)
  ELSE b.groups

RECURSIVE BuildLoop(_, _, _, _)
BuildLoop(b, linkPairs, minSize, maxSize) ==
  IF Len(b.unassignedNames) > 0
  THEN BuildLoop(BuildIteration(b, linkPairs, minSize, maxSize), linkPairs, minSize, maxSize)
  ELSE BuildTail(b, minSize)

\* lines 95-97: the loop state on entry
BuildStart(uniqueNames) ==
  [unassignedNames |-> SetFrom(uniqueNames, <<>>), groups |-> <<>>, currentGroup |-> <<>>]

createConnectedGroups(uniqueNames, linkPairs, minSize, maxSize) ==
  BuildLoop(BuildStart(uniqueNames), linkPairs, minSize, maxSize)

\* ------------------------------------------------------------- state
VARIABLES
  minGroupSize,      \* useState, line 23
  maxGroupSize,      \* useState, line 24
  maxGroups,         \* useState, line 25
  nodes,             \* useState, line 26
  connections,       \* useState, line 27
  error,             \* useState, line 28: the message as a tuple of its parts, <<>> for ''
  calls,             \* history: the functions the last processInput invoked
  invalid,           \* history: whether the last processInput was given an invalid run
  uniqueNames,       \* argument of createConnectedGroups
  linkPairs,         \* argument of the three functions
  unassignedNames,   \* line 95
  groups,            \* line 96, then the argument of mergeGroups
  currentGroup,      \* line 97
  connectedToGroup,  \* line 108
  pending,           \* members currentGroup.forEach has still to visit (line 109)
  name,              \* argument of findConnectedNames
  connected,         \* line 31
  size,              \* line 32
  pc,                \* position in the run
  startSize,         \* history: unassignedNames.size when the current iteration began
  mergeInput         \* history: the group list mergeGroups was called with

vars == <<minGroupSize, maxGroupSize, maxGroups, nodes, connections, error, calls, invalid,
          uniqueNames, linkPairs, unassignedNames, groups, currentGroup,
          connectedToGroup, pending, name, connected, size, pc, startSize, mergeInput>>

appVars == <<nodes, connections, error, calls, invalid>>
cfgVars == <<minGroupSize, maxGroupSize, maxGroups>>
inputVars == <<uniqueNames, linkPairs>>
buildVars == <<unassignedNames, currentGroup, connectedToGroup, pending, startSize>>
closureVars == <<name, connected, size>>

Names(n) == [k \in 1..n |-> k]

LinksOver(ids, n) == SeqsUpTo({NameLink(s, t) : s \in ids, t \in ids}, n)

\* ------------------------------------------- steps of findConnectedNames
\* one iteration of the do-while of lines 33-39
ClosureIter ==
  /\ pc = "closure"
  /\ size' = Len(connected)
  /\ connected' = ClosurePass(connected, linkPairs)
  /\ pc' = IF ClosureRepeats(size', connected') THEN "closure" ELSE "closed"
  /\ UNCHANGED <<appVars, cfgVars, inputVars, buildVars, groups, name, mergeInput>>

\* ---------------------------------------- steps of createConnectedGroups
LoopState == [unassignedNames |-> unassignedNames, groups |-> groups,
              currentGroup |-> currentGroup]

\* line 99: the loop test holds
IterBeginGuard == pc = "loop" /\ Len(unassignedNames) > 0

\* line 99: the loop test fails
BuildReturnGuard == pc = "loop" /\ ~(Len(unassignedNames) > 0)

\* lines 99-110: the loop test holds; seed if needed and call findConnectedNames
\* for the first member
IterBegin ==
  /\ IterBeginGuard
  /\ LET seeded == SeedGroup(LoopState)
     IN /\ unassignedNames' = seeded.unassignedNames
        /\ currentGroup' = seeded.currentGroup
        /\ pending' = seeded.currentGroup
        /\ name' = Head(seeded.currentGroup)
        /\ connected' = <<Head(seeded.currentGroup)>>
  /\ connectedToGroup' = <<>>
  /\ startSize' = Len(unassignedNames)
  /\ pc' = "closure"
  /\ UNCHANGED <<appVars, cfgVars, inputVars, groups, size, mergeInput>>

\* lines 110-114: findConnectedNames returned; filter its result into
\* connectedToGroup and go on to the next member
CollectMember ==
  /\ pc = "closed"
  /\ connectedToGroup' = CollectConnected(connectedToGroup, connected, unassignedNames)
  /\ pending' = Tail(pending)
  /\ IF Tail(pending) # <<>>
     THEN /\ name' = Head(Tail(pending))
          /\ connected' = <<Head(Tail(pending))>>
          /\ pc' = "closure"
     ELSE /\ UNCHANGED <<name, connected>>
          /\ pc' = "decide"
  /\ UNCHANGED <<appVars, cfgVars, inputVars, unassignedNames, groups, currentGroup,
                 size, startSize, mergeInput>>

\* lines 116-134: the rest of the iteration
Decide ==
  /\ pc = "decide"
  /\ LET b == FinalizeOrGrow(LoopState, connectedToGroup, minGroupSize, maxGroupSize)
     IN /\ unassignedNames' = b.unassignedNames
        /\ groups' = b.groups
        /\ currentGroup' = b.currentGroup
  /\ pc' = "loop"
  /\ UNCHANGED <<appVars, cfgVars, inputVars, connectedToGroup, pending, closureVars,
                 startSize, mergeInput>>

\* lines 137-148 and 198-201: the loop test fails; createConnectedGroups returns
\* and its result is passed to mergeGroups
BuildReturn ==
  /\ BuildReturnGuard
  /\ groups' = BuildTail(LoopState, minGroupSize)
  /\ mergeInput' = groups'
  /\ currentGroup' = <<>>
  /\ pc' = "merge"
  /\ UNCHANGED <<appVars, cfgVars, inputVars, unassignedNames, connectedToGroup, pending,
                 closureVars, startSize>>

\* ---------------------------------------------------- steps of mergeGroups
\* lines 59 and 78: the loop test holds and the search found a pair
MergeIterGuard ==
  /\ pc = "merge"
  /\ Len(groups) > maxGroups
  /\ FindBestPair(groups, linkPairs, maxGroupSize)[1] # -1

\* lines 57, 59 and 78: the early return, the failed loop test or the break
MergeReturnGuard ==
  /\ pc = "merge"
  /\ \/ Len(groups) <= maxGroups
     \/ FindBestPair(groups, linkPairs, maxGroupSize)[1] = -1

\* lines 59-88: one iteration of the while loop that merges a pair
MergeIter ==
  /\ MergeIterGuard
  /\ groups' = MergePair(groups, FindBestPair(groups, linkPairs, maxGroupSize))
  /\ UNCHANGED <<appVars, cfgVars, inputVars, buildVars, closureVars, pc, mergeInput>>

\* lines 57, 59, 78-81, 91: the early return, the loop exit and the break
MergeReturn ==
  /\ MergeReturnGuard
  /\ pc' = "done"
  /\ UNCHANGED <<appVars, cfgVars, inputVars, buildVars, closureVars, groups, mergeInput>>

\* ------------------------------------------------ specification of a run
\* processInput from line 198 on, for an input that passed validation
AppIdle ==
  /\ nodes = <<>> /\ connections = <<>> /\ error = <<>> /\ calls = <<>>
  /\ invalid = FALSE

InitRun ==
  /\ AppIdle
  /\ \E n \in 0..MaxNames :
       /\ uniqueNames = Names(n)
       /\ linkPairs \in LinksOver(1..n, MaxLinks)
       /\ unassignedNames = BuildStart(Names(n)).unassignedNames
  /\ minGroupSize \in 1..MaxCfg
  /\ maxGroupSize \in minGroupSize..MaxCfg
  /\ maxGroups \in 1..MaxCfg
  /\ groups = <<>> /\ currentGroup = <<>> /\ connectedToGroup = <<>>
  /\ pending = <<>> /\ name = 0 /\ connected = <<>> /\ size = 0
  /\ startSize = 0 /\ mergeInput = <<>>
  /\ pc = "loop"

NextRun == IterBegin \/ ClosureIter \/ CollectMember \/ Decide \/ BuildReturn
           \/ MergeIter \/ MergeReturn

SpecRun == InitRun /\ [][NextRun]_vars

\* --------------------------------- specification of findConnectedNames
\* one call, for any seed (MaxNames + 1 occurs in no link) and any link list
InitClosure ==
  /\ AppIdle
  /\ uniqueNames = Names(MaxNames)
  /\ linkPairs \in LinksOver(1..MaxNames, MaxLinks)
  /\ name \in 1..(MaxNames + 1)
  /\ connected = <<name>>
  /\ size = 0
  /\ minGroupSize = 1 /\ maxGroupSize = 1 /\ maxGroups = 1
  /\ unassignedNames = <<>> /\ groups = <<>> /\ currentGroup = <<>>
  /\ connectedToGroup = <<>> /\ pending = <<>>
  /\ startSize = 0 /\ mergeInput = <<>>
  /\ pc = "closure"

NextClosure == ClosureIter

SpecClosure == InitClosure /\ [][NextClosure]_vars

\* ---------------------------------------- specification of mergeGroups
\* one call, for any list of disjoint non-empty groups covering the names.
\* Identifiers are only compared for equality, so the entities are numbered in
\* the order in which the group list holds them; the links range over all pairs.
RECURSIVE SplitAt(_, _, _, _)
SplitAt(p, cuts, k, acc) ==
  IF k > Len(p) THEN acc
  ELSE IF k = 1 \/ (k - 1) \in cuts
       THEN SplitAt(p, cuts, k + 1, Append(acc, <<p[k]>>))
       ELSE SplitAt(p, cuts, k + 1, [acc EXCEPT ![Len(acc)] = Append(@, p[k])])

GroupLists(n) == {SplitAt(Names(n), cuts, 1, <<>>) : cuts \in SUBSET (1..(n - 1))}

InitMerge ==
  /\ AppIdle
  /\ \E n \in 0..MaxNames :
       /\ uniqueNames = Names(n)
       /\ linkPairs \in LinksOver(1..n, MaxLinks)
       /\ groups \in GroupLists(n)
  /\ mergeInput = groups
  /\ minGroupSize = 1
  /\ maxGroupSize \in 1..MaxCfg
  /\ maxGroups \in 1..MaxCfg
  /\ unassignedNames = <<>> /\ currentGroup = <<>> /\ connectedToGroup = <<>>
  /\ pending = <<>> /\ name = 0 /\ connected = <<>> /\ size = 0
  /\ startSize = 0
  /\ pc = "merge"

NextMerge == MergeIter \/ MergeReturn

SpecMerge == InitMerge /\ [][NextMerge]_vars

\* ------------------------------------------------------- processInput
\* A line of the names box is modelled after split(',') and trim as the
\* record [name, gender]; a line of the links box as [source, target].
Person(n, g) == [name |-> n, gender |-> g]

ToUpperCase(g) == CASE g = "m" -> "M" [] g = "f" -> "F" [] OTHER -> g

\* lines 154-169: the map callback over the name lines; the first throw ends it
RECURSIVE ParseNames(_, _)
ParseNames(lines, acc) ==
  IF lines = <<>> THEN acc
  ELSE LET line == Head(lines)
       IN IF line.name = 0
          THEN [acc EXCEPT !.thrown = <<"Invalid name format">>]
          ELSE IF line.gender \notin {"M", "F", "m", "f"}
          THEN [acc EXCEPT !.thrown = <<"Invalid gender for ", line.name, ". Use M or F.">>]
          ELSE ParseNames(Tail(lines),
                 [acc EXCEPT !.nameList = Append(@, line.name),
                             !.peopleMap = [n \in DOMAIN @ \cup {line.name} |->
                                              IF n = line.name
                                              THEN Person(line.name, ToUpperCase(line.gender))
                                              ELSE @[n]]])

\* lines 173-183: the message of the first configuration check that fails
ConfigError(minSize, maxSize, targetGroupCount) ==
  IF minSize <= 0 THEN <<"Minimum group size must be greater than 0">>
  ELSE IF maxSize < minSize
  THEN <<"Maximum group size must be greater than or equal to minimum group size">>
  ELSE IF targetGroupCount <= 0
  THEN <<"Maximum number of groups must be greater than 0">>
  ELSE <<>>

\* lines 186-195: the map callback over the link lines; the first throw ends it
RECURSIVE ParseLinks(_, _, _)
ParseLinks(lines, names, acc) ==
  IF lines = <<>> THEN acc
  ELSE LET link == Head(lines)
       IN IF link.source = 0 \/ link.target = 0
          THEN [acc EXCEPT !.thrown = <<"Invalid link format">>]
          ELSE IF ~Has(names, link.source) \/ ~Has(names, link.target)
          THEN [acc EXCEPT !.thrown = <<"Link contains name not in names list: ",
                                        link.source, " or ", link.target>>]
          ELSE ParseLinks(Tail(lines), names, [acc EXCEPT !.linkPairs = Append(@, link)])

\* lines 204-210: groups.flatMap
RECURSIVE FlatMapNodes(_, _, _)
FlatMapNodes(groupList, groupIndex, peopleMap) ==
  IF groupList = <<>> THEN <<>>
  ELSE [k \in 1..Len(Head(groupList)) |->
          [id |-> Head(groupList)[k],
           gender |-> peopleMap[Head(groupList)[k]].gender,
           group |-> groupIndex]]
       \o FlatMapNodes(Tail(groupList), groupIndex + 1, peopleMap)

\* Commit with the catch block also resetting the results
CommitClearsOnError(out) ==
  IF out.thrown # <<>>
  THEN /\ error' = out.thrown
       /\ nodes' = <<>>
       /\ connections' = <<>>
  ELSE /\ nodes' = out.nodes
       /\ connections' = out.linkPairs
       /\ error' = <<>>

\* lines 212-216: what the run writes, from what the try block computed
Commit(out) ==
  IF out.thrown # <<>>
  THEN /\ error' = out.thrown
       /\ UNCHANGED <<nodes, connections>>
  ELSE /\ nodes' = out.nodes
       /\ connections' = out.linkPairs
       /\ error' = <<>>

\* lines 152-211: the try block on the two text boxes and the three fields
TryBlock(names, links, minSize, maxSize, targetGroupCount) ==
  LET none == [thrown |-> <<>>, nodes |-> <<>>, linkPairs |-> <<>>, calls |-> <<>>]
      people == ParseNames(names, [thrown |-> <<>>, nameList |-> <<>>, peopleMap |-> <<>>])
      unique == SetFrom(people.nameList, <<>>)
      config == ConfigError(minSize, maxSize, targetGroupCount)
      parsed == ParseLinks(links, unique, [thrown |-> <<>>, linkPairs |-> <<>>])
      built == createConnectedGroups(unique, parsed.linkPairs, minSize, maxSize)
      merged == mergeGroups(built, parsed.linkPairs, maxSize, targetGroupCount)
  IN IF people.thrown # <<>> THEN [none EXCEPT !.thrown = people.thrown]
     ELSE IF config # <<>> THEN [none EXCEPT !.thrown = config]
     ELSE IF parsed.thrown # <<>> THEN [none EXCEPT !.thrown = parsed.thrown]
     ELSE [thrown |-> <<>>,
           nodes |-> FlatMapNodes(merged, 0, people.peopleMap),
           linkPairs |-> parsed.linkPairs,
           calls |-> <<"createConnectedGroups", "mergeGroups">>]

\* the text boxes' contents when the button is clicked
NameLines ==
  SeqsUpTo({Person(1, "M"), Person(2, "f"), Person(0, "F"), Person(2, "x")}, MaxNameLines)

LinkLines ==
  SeqsUpTo({NameLink(1, 1), NameLink(1, 2), NameLink(2, 3), NameLink(0, 1)}, MaxLinkLines)

\* what the run was given, classified by the error kinds of the specification
InvalidRun(names, links, minSize, maxSize, targetGroupCount) ==
  \/ minSize < 1
  \/ maxSize < minSize
  \/ targetGroupCount < 1
  \/ \E k \in 1..Len(names) : names[k].name = 0 \/ ToUpperCase(names[k].gender) \notin {"M", "F"}
  \/ \E k \in 1..Len(links) :
       \/ links[k].source \notin {names[n].name : n \in 1..Len(names)}
       \/ links[k].target \notin {names[n].name : n \in 1..Len(names)}

\* lines 151-218: a click on the button
processInput ==
  /\ pc = "idle"
  /\ \E names \in NameLines, links \in LinkLines :
       LET out == TryBlock(names, links, minGroupSize, maxGroupSize, maxGroups)
       IN /\ Commit(out)
          /\ calls' = out.calls
          /\ invalid' = InvalidRun(names, links, minGroupSize, maxGroupSize, maxGroups)
  /\ UNCHANGED <<cfgVars, inputVars, buildVars, closureVars, groups, pc, mergeInput>>

\* the value parseInt gave for a number field: NaN or an integer
FieldValues ==
  {[isNaN |-> TRUE, value |-> 0]} \cup {[isNaN |-> FALSE, value |-> v] : v \in -1..MaxField}

\* parseInt(e.target.value) || fallback
OrElse(parsed, fallback) ==
  IF parsed.isNaN \/ parsed.value = 0 THEN fallback ELSE parsed.value

Max(a, b) == IF a >= b THEN a ELSE b

\* the onChange handler of the minimum group size field (lines 305-311)
onChangeMinGroupSize ==
  /\ pc = "idle"
  /\ \E parsed \in FieldValues :
       LET value == Max(1, OrElse(parsed, 1))
       IN /\ minGroupSize' = value
          /\ maxGroupSize' = IF value > maxGroupSize THEN value ELSE maxGroupSize
  /\ UNCHANGED <<appVars, maxGroups, inputVars, buildVars, closureVars, groups, pc,
                 mergeInput>>

\* the onChange handler of the maximum group size field (line 323)
onChangeMaxGroupSize ==
  /\ pc = "idle"
  /\ \E parsed \in FieldValues :
       maxGroupSize' = Max(minGroupSize, OrElse(parsed, minGroupSize))
  /\ UNCHANGED <<appVars, minGroupSize, maxGroups, inputVars, buildVars, closureVars,
                 groups, pc, mergeInput>>

\* the onChange handler of the maximum number of groups field (line 335)
onChangeMaxGroups ==
  /\ pc = "idle"
  /\ \E parsed \in FieldValues : maxGroups' = Max(1, OrElse(parsed, 1))
  /\ UNCHANGED <<appVars, minGroupSize, maxGroupSize, inputVars, buildVars,
                 closureVars, groups, pc, mergeInput>>

\* lines 21-28: the component's state after construction
Init ==
  /\ minGroupSize = InitialMinGroupSize
  /\ maxGroupSize = InitialMaxGroupSize
  /\ maxGroups = InitialMaxGroups
  /\ AppIdle
  /\ uniqueNames = <<>> /\ linkPairs = <<>> /\ unassignedNames = <<>>
  /\ groups = <<>> /\ currentGroup = <<>> /\ connectedToGroup = <<>>
  /\ pending = <<>> /\ name = 0 /\ connected = <<>> /\ size = 0
  /\ startSize = 0 /\ mergeInput = <<>>
  /\ pc = "idle"

Next == processInput \/ onChangeMinGroupSize \/ onChangeMaxGroupSize \/ onChangeMaxGroups

Spec == Init /\ [][Next]_vars

\* ----------------------------------------------------------- analytics
GroupIds == {nodes[k].group : k \in 1..Len(nodes)}

\* lines 220-226: the nodes of each group, in node order
groupedNodes == [g \in GroupIds |-> SelectSeq(nodes, LAMBDA node : node.group = g)]

\* lines 228-233
getConnectionsInGroup(groupId) ==
  LET groupNodeIds == IF groupId \in GroupIds
                      THEN {groupedNodes[groupId][k].id : k \in 1..Len(groupedNodes[groupId])}
                      ELSE {}
  IN SelectSeq(connections,
               LAMBDA conn : conn.source \in groupNodeIds /\ conn.target \in groupNodeIds)

\* lines 235-239
getConnectionsForName(person, groupConnections) ==
  Len(SelectSeq(groupConnections, LAMBDA conn : conn.source = person \/ conn.target = person))

\* ================================================================ claims
Min(a, b) == IF a <= b THEN a ELSE b

Last(s) == s[Len(s)]

\* the (group, position) pairs of a group list
Places(groupList) ==
  UNION {{<<g, k>> : k \in 1..Len(groupList[g])} : g \in 1..Len(groupList)}

IsPartition(groupList, entities) ==
  /\ \A e \in Range(entities) :
       Cardinality({pl \in Places(groupList) : groupList[pl[1]][pl[2]] = e}) = 1
  /\ \A pl \in Places(groupList) : groupList[pl[1]][pl[2]] \in Range(entities)

\* C1: the groups createConnectedGroups returns, and the groups after every
\* merge step of mergeGroups, form a partition of the entity set: every entity
\* is in exactly one group exactly once, and no group holds a non-entity.
C1_Partition ==
  pc \in {"merge", "done"} => IsPartition(groups, uniqueNames)

C1_Witness ==
  /\ pc = "done"
  /\ Len(uniqueNames) = MaxNames
  /\ Len(groups) >= 2
  /\ Len(groups) < Len(mergeInput)

\* C2: a merge step lowers the group count by exactly one and the group it
\* creates has size <= maxSize; the list mergeGroups works on is never longer
\* than its input; every group createConnectedGroups builds, and so every
\* group of the final result, has size <= maxSize.
C2_MergeMonotone ==
  [][/\ pc' \in {"merge", "done"} =>
          /\ Len(groups') <= Len(mergeInput')
          /\ \A g \in 1..Len(groups') : Len(groups'[g]) <= maxGroupSize
     /\ (pc = "merge" /\ groups' # groups) =>
          /\ Len(groups') = Len(groups) - 1
          /\ Len(Last(groups')) <= maxGroupSize]_vars

C2_Witness ==
  /\ pc = "done"
  /\ Len(groups) < Len(mergeInput)
  /\ Len(Last(groups)) = maxGroupSize
  /\ \E g \in 1..Len(groups) : Len(groups[g]) < maxGroupSize

EligiblePairs(groupList, maxSize) ==
  {pr \in (1..Len(groupList)) \X (1..Len(groupList)) :
     pr[1] < pr[2] /\ Len(groupList[pr[1]]) + Len(groupList[pr[2]]) <= maxSize}

\* C3: mergeGroups merges exactly when the group count exceeds targetCount
\* and some pair of groups has combined size <= maxSize (whatever its
\* score); on return the count is <= targetCount or no such pair is left;
\* the count never falls below min(input count, targetCount).
C3_MergeExactlyWhen ==
  [][pc = "merge" =>
       /\ (groups' # groups) <=>
            (Len(groups) > maxGroups /\ EligiblePairs(groups, maxGroupSize) # {})
       /\ pc' = "done" =>
            (Len(groups') <= maxGroups \/ EligiblePairs(groups', maxGroupSize) = {})
       /\ Len(groups') >= Min(Len(mergeInput), maxGroups)]_vars

C3_Witness ==
  /\ pc = "done"
  /\ Len(groups) > maxGroups
  /\ Len(groups) < Len(mergeInput)
  /\ \A k \in 1..Len(linkPairs) : linkPairs[k].source = linkPairs[k].target

\* C4: a run that fails validation (a size or count below its minimum, an
\* unknown link endpoint, a malformed entity record) raises its error before
\* createConnectedGroups or mergeGroups is invoked, writes neither nodes nor
\* connections, and reports a non-empty error.
C4_FailFast ==
  [][invalid' =>
       /\ nodes' = nodes
       /\ connections' = connections
       /\ error' # <<>>
       /\ calls' = <<>>]_vars

C4_Witness ==
  /\ invalid
  /\ nodes # <<>>
  /\ connections # <<>>
  /\ error # <<>>

\* the identifiers within the given number of link hops of the seed, links
\* followed in either direction
RECURSIVE ReachWithin(_, _, _)
ReachWithin(seed, links, hops) ==
  IF hops = 0 THEN {seed}
  ELSE LET near == ReachWithin(seed, links, hops - 1)
       IN near \cup {links[k].target : k \in {h \in 1..Len(links) : links[h].source \in near}}
               \cup {links[k].source : k \in {h \in 1..Len(links) : links[h].target \in near}}

Reachable(seed, links) == ReachWithin(seed, links, Len(links))

Neighbours(seed, links) == ReachWithin(seed, links, 1)

\* C5: findConnectedNames returns exactly the identifiers reachable from the
\* seed by following links in either direction, each once; a seed that is in
\* no link yields {seed}.
C5_Closure ==
  pc = "closed" =>
    /\ Range(connected) = Reachable(name, linkPairs)
    /\ Cardinality(Range(connected)) = Len(connected)
    /\ (\A k \in 1..Len(linkPairs) : name \notin {linkPairs[k].source, linkPairs[k].target})
         => connected = <<name>>

C5_Witness ==
  /\ pc = "closed"
  /\ Range(connected) \ Neighbours(name, linkPairs) # {}
  /\ \E k \in 1..Len(linkPairs) : linkPairs[k].target = name

\* A rank of the states of a run: the position in the merge loop, or, in
\* createConnectedGroups, the unassigned entities and the open group first,
\* then the position inside the iteration, then the members and the closure
\* growth still to come.
RankUnit == Len(uniqueNames) + 2

RankIteration == (Len(uniqueNames) + 2) * RankUnit

Rank ==
  CASE pc = "done" -> 0
    [] pc = "merge" -> 1 + Len(groups)
    [] OTHER ->
         (Len(uniqueNames) + 2)
         + (2 * Len(unassignedNames) + (IF currentGroup # <<>> THEN 1 ELSE 0)) * RankIteration
         + (CASE pc = "loop" -> RankIteration - 1
              [] pc = "closure" -> Len(pending) * RankUnit + (RankUnit - Len(connected))
              [] pc = "closed" -> Len(pending) * RankUnit
              [] OTHER -> 0)

\* C6: for every valid input the closure loop, the main loop of
\* createConnectedGroups and the merge loop each exit after finitely many
\* iterations, and the run ends with a list of groups: every step of the run
\* lowers a rank that is a natural number, and the run can always take a step
\* until mergeGroups has returned.
RunCanStep ==
  \/ IterBeginGuard \/ BuildReturnGuard
  \/ pc = "closure"
  \/ pc = "closed" /\ pending # <<>>
  \/ pc = "decide"
  \/ MergeIterGuard \/ MergeReturnGuard

C6_Terminates ==
  /\ [](Rank \in Nat /\ (pc = "done" \/ RunCanStep))
  /\ [][Rank' < Rank]_vars

C6_Witness ==
  /\ pc = "done"
  /\ size > 1
  /\ Len(mergeInput) > 1
  /\ Len(groups) = 1

\* the number of links with one endpoint in each group, every occurrence counted
Score(groupList, pr) ==
  Cardinality({k \in 1..Len(linkPairs) :
     \/ /\ linkPairs[k].source \in Range(groupList[pr[1]])
        /\ linkPairs[k].target \in Range(groupList[pr[2]])
     \/ /\ linkPairs[k].source \in Range(groupList[pr[2]])
        /\ linkPairs[k].target \in Range(groupList[pr[1]])})

RowMajorBefore(pr, qr) == pr[1] < qr[1] \/ (pr[1] = qr[1] /\ pr[2] <= qr[2])

\* the groups other than the pair's, in their order
Others(groupList, pr) ==
  LET kept == {m \in 1..Len(groupList) : m # pr[1] /\ m # pr[2]}
  IN [k \in 1..Cardinality(kept) |->
        groupList[CHOOSE m \in kept : Cardinality({x \in kept : x <= m}) = k]]

Position(e) == CHOOSE k \in 1..Len(uniqueNames) : uniqueNames[k] = e

\* the still-unassigned entities connected to the group-in-progress
Candidates ==
  {e \in Range(unassignedNames) : \E m \in Range(currentGroup) : e \in Reachable(m, linkPairs)}

GrowthStep == pc = "decide" /\ Candidates # {} /\ Len(currentGroup) < maxGroupSize

\* C8 as stated: in the growth step the entity moved into the group is, among
\* the still-unassigned entities connected to the group, the one that is
\* earliest in the input entity order.
C8_EarliestInInputOrder ==
  [][GrowthStep =>
       /\ Last(currentGroup') \in Candidates
       /\ \A e \in Candidates : Position(Last(currentGroup')) <= Position(e)]_vars

FirstUnassignedOf(closure) ==
  closure[CHOOSE k \in 1..Len(closure) :
            /\ Has(unassignedNames, closure[k])
            /\ \A h \in 1..(k - 1) : ~Has(unassignedNames, closure[h])]

\* C8 as amended: in the growth step the entity moved into the group is the
\* first still-unassigned one in the iteration order of the closure of the
\* group's first member (the seed, then the identifiers in the order the link
\* scans reach them); it is connected to the group, it is appended to the
\* group and removed from the unassigned set.
C8_FirstInClosureOrder ==
  [][GrowthStep =>
       /\ Last(currentGroup') \in Candidates
       /\ Last(currentGroup') =
            FirstUnassignedOf(findConnectedNames(currentGroup[1], linkPairs))
       /\ currentGroup' = Append(currentGroup, Last(currentGroup'))
       /\ unassignedNames' = SelectSeq(unassignedNames, LAMBDA n : n # Last(currentGroup'))]_vars

C8_Witness ==
  /\ pc = "loop"
  /\ Len(currentGroup) >= 2
  /\ \E e \in Candidates : Position(e) < Position(Last(currentGroup))

\* C9 as stated: the unassigned set is strictly smaller at the end of every
\* iteration of the main loop than at its start.
C9_ShrinksEveryIteration ==
  [][pc = "decide" => Len(unassignedNames') < startSize]_vars

\* C9 as amended: the unassigned set never grows during an iteration; seeding
\* and growing each remove exactly one entity; an iteration leaves the set
\* unchanged only when it starts with a group-in-progress and finalizes it
\* without padding, which empties the group-in-progress, so that the next
\* iteration seeds.
C9_ShrinksOrFinalizes ==
  [][/\ (pc = "loop" /\ pc' = "closure" /\ currentGroup = <<>>) =>
          Len(unassignedNames') = Len(unassignedNames) - 1
     /\ pc = "decide" =>
          /\ Len(unassignedNames') <= startSize
          /\ Len(currentGroup') > Len(currentGroup) =>
               Len(unassignedNames') = Len(unassignedNames) - 1
          /\ Len(unassignedNames') = startSize =>
               /\ currentGroup' = <<>>
               /\ groups' = Append(groups, currentGroup)
               /\ Len(currentGroup) >= 2]_vars

C9_Witness ==
  /\ pc = "loop"
  /\ startSize > 0
  /\ Len(unassignedNames) = startSize
  /\ currentGroup = <<>>

\* the intra-group link endpoints that touch an entity
Endpoints(person, groupConnections) ==
  Cardinality({k \in 1..Len(groupConnections) : groupConnections[k].source = person})
  + Cardinality({k \in 1..Len(groupConnections) : groupConnections[k].target = person})

RECURSIVE SumDegrees(_, _)
SumDegrees(groupNodes, groupConnections) ==
  IF groupNodes = <<>> THEN 0
  ELSE getConnectionsForName(Head(groupNodes).id, groupConnections)
       + SumDegrees(Tail(groupNodes), groupConnections)

\* C10: the degree reported for an entity within its group is the number of
\* intra-group link endpoints touching it (a self-link adds 2), so the
\* degrees of a group's members sum to twice its intra-group edge count.
C10_DegreeCountsEndpoints ==
  \A g \in GroupIds :
    /\ \A k \in 1..Len(groupedNodes[g]) :
         getConnectionsForName(groupedNodes[g][k].id, getConnectionsInGroup(g))
           = Endpoints(groupedNodes[g][k].id, getConnectionsInGroup(g))
    /\ SumDegrees(groupedNodes[g], getConnectionsInGroup(g))
         = 2 * Len(getConnectionsInGroup(g))

\* the places in a list of groups that hold fewer than minSize members
SmallGroups(groupList, minSize) ==
  {g \in 1..Len(groupList) : Len(groupList[g]) < minSize}

\* C11: for every valid input at most one group returned by
\* createConnectedGroups has fewer than minSize members, and if there is one
\* it is the last group of the list, pushed when the unassigned set was
\* already empty; while mergeGroups runs and when it has returned, the list
\* still holds at most one group with fewer than minSize members.
C11_AtMostOneSmallGroup ==
  /\ pc \notin {"merge", "done"} =>
       \A g \in SmallGroups(groups, minGroupSize) :
         g = Len(groups) /\ unassignedNames = <<>>
  /\ pc \in {"merge", "done"} =>
       /\ Cardinality(SmallGroups(mergeInput, minGroupSize)) <= 1
       /\ SmallGroups(mergeInput, minGroupSize) \subseteq {Len(mergeInput)}
       /\ SmallGroups(mergeInput, minGroupSize) # {} => unassignedNames = <<>>
       /\ Cardinality(SmallGroups(groups, minGroupSize)) <= 1

\* createConnectedGroups returned two or more groups of which the last is
\* below minSize, and mergeGroups has merged and returned
C11_Witness ==
  /\ pc = "done"
  /\ Len(mergeInput) >= 2
  /\ SmallGroups(mergeInput, minGroupSize) = {Len(mergeInput)}
  /\ groups # mergeInput

====
